---------------------------- MODULE Spec2Model ----------------------------
(***************************************************************************)
(* Model of the hashgraph chat client (src/main.go): the local Hashgraph   *)
(* store (Events, Rounds), AddEvent with hashEvent / signEvent, the reader *)
(* goroutine that verifies and adds received events, and the input         *)
(* goroutine that creates, adds and sends events; and of the relay server  *)
(* (src/unnamed/part_001): one signalHandler goroutine per connection, the *)
(* session registry and the forwarding of event messages.                  *)
(*                                                                         *)
(* Go strings and byte slices are sequences of atoms (TLA+ strings); a     *)
(* hex SHA-256 digest is one atom, an injective image of the bytes fed to  *)
(* the digest.  Signature strings are sequences of hexadecimal digits      *)
(* 0..15, with 16 standing for any character that is not a hex digit.      *)
(* ECDSA is symbolic: a pair (r, s) verifies for a key and a digest        *)
(* exactly when that key produced it for that digest (variable issued).    *)
(***************************************************************************)
EXTENDS Integers, Sequences, FiniteSets, TLC

VARIABLES
    Events,       \* Hashgraph.Events: map hash -> event
    Rounds,       \* Hashgraph.Rounds: map round -> slice of events
    issued,       \* every (key, digest, r, s) some ecdsa.Sign call returned
    sent,         \* messages the input goroutine wrote to the connection
    clock,        \* readings of time.Now() taken so far
    nodes,        \* the node list fetched once by getNodes()
    nRecv,        \* event messages the reader goroutine has handled
    readerAlive,  \* the reader goroutine has not returned
    lastRecv,     \* the last event message the reader handled, and its outcome
    lastErr,      \* what the last AddEvent call returned
    recvLog,      \* the events the reader goroutine added, in arrival order
    running,      \* the client process has not been ended by a panic
    pc,           \* relay: where the signalHandler of each connection stands
    sessions,     \* relay: sessionManager.sessions, map node id -> connection
    managerNodes, \* relay: the node ids HashgraphManagerInstance holds
    writing,      \* relay: the connections each handler is inside WriteJSON on
    stalled,      \* relay: the connections whose peer has stopped accepting writes
    relayLog      \* relay: every event message handled, and what was written

clientVars == <<Events, Rounds, issued, sent, clock, nodes, nRecv, readerAlive,
                lastRecv, lastErr, recvLog, running>>

relayVars == <<pc, sessions, managerNodes, writing, stalled, relayLog>>

vars == <<clientVars, relayVars>>

(***************************** bounds **************************************)
MaxLocal    == 1   \* events the input goroutine creates
MaxRecv     == 2   \* event messages the reader goroutine handles
ScalarBytes == 2   \* longest byte encoding of a signature component
MaxRound    == 1   \* largest RoundCreated a wire event carries
MaxTamper   == 1   \* fields a peer alters in an event it sends back
MaxNodes    == 3   \* connections the relay accepts
MaxMsgs     == 2   \* event messages the relay handles
MaxHashes   == 2   \* distinct events the relay's messages carry
MaxStalled  == 1   \* peers that stop accepting writes
MaxSigLen   == 4   \* longest signature string tried on verifyEventSignature

(***************************** byte strings ********************************)
EmptyMap == [k \in {} |-> k]

\* m[k] = v on a Go map
MapPut(m, k, v) == [x \in DOMAIN m \cup {k} |-> IF x = k THEN v ELSE m[x]]

RECURSIVE Pow256(_)
Pow256(n) == IF n = 0 THEN 1 ELSE 256 * Pow256(n - 1)

\* big.Int.Bytes(): the minimal big-endian encoding; no bytes at all for 0
RECURSIVE BigBytes(_)
BigBytes(n) == IF n = 0 THEN <<>> ELSE Append(BigBytes(n \div 256), n % 256)

\* big.Int.SetBytes(): the big-endian value; leading zero bytes add nothing
RECURSIVE SetBytes(_)
SetBytes(bs) ==
    IF bs = <<>> THEN 0
    ELSE 256 * SetBytes(SubSeq(bs, 1, Len(bs) - 1)) + bs[Len(bs)]

\* hex.EncodeToString: two digits per byte
RECURSIVE HexEncode(_)
HexEncode(bs) ==
    IF bs = <<>> THEN <<>>
    ELSE <<bs[1] \div 16, bs[1] % 16>> \o HexEncode(Tail(bs))

RECURSIVE HexBytes(_)
HexBytes(ds) ==
    IF ds = <<>> THEN <<>>
    ELSE <<16 * ds[1] + ds[2]>> \o HexBytes(Tail(Tail(ds)))

\* a decoder that reports no error: a character that is not a hex digit
\* counts as 0 and an odd last character is left out
HexDecodeUnchecked(ds) ==
    [err |-> FALSE,
     bytes |-> HexBytes([i \in 1..(2 * (Len(ds) \div 2)) |-> ds[i] % 16])]

\* hex.DecodeString: an error on an odd length or on a character that is
\* not a hex digit
HexDecode(ds) ==
    IF Len(ds) % 2 = 1 \/ \E i \in 1..Len(ds) : ds[i] > 15
    THEN [err |-> TRUE, bytes |-> <<>>]
    ELSE [err |-> FALSE, bytes |-> HexBytes(ds)]

\* the bytes of a [][]byte written one after another
RECURSIVE Flatten(_)
Flatten(txs) == IF txs = <<>> THEN <<>> ELSE Head(txs) \o Flatten(Tail(txs))

(***************************** time ****************************************)
\* time.Time.String(): the wall clock reading, then " m=+..." when the
\* value carries a monotonic clock reading (mono # 0).  The zone is
\* rendered the same on every node here.
TimeString(t) ==
    <<ToString(<<"wall", t.wall>>)>>
        \o (IF t.mono # 0 THEN <<ToString(<<"m=", t.mono>>)>> ELSE <<>>)

\* time.Now(): the n-th reading; it always carries a monotonic reading
TimeNow(n) == [wall |-> n, mono |-> n]

(***************************** crypto **************************************)
privateKey == "keyA"    \* ecdsa.GenerateKey in main
publicKey  == privateKey
peerKey    == "keyB"    \* the key pair another client generated

\* hex.EncodeToString(sha256(bytes)): collision free, one atom
HexDigest(bytes) == ToString(bytes)

\* sha256.Sum256([]byte(event.Hash))
Sum256(str) == <<"sum256">> \o str

hashEvent(event) ==
    <<HexDigest(event.Creator \o event.SelfParent \o event.OtherParent
                \o TimeString(event.Timestamp) \o Flatten(event.Transactions))>>

\* the signature string signEvent stores for the pair (r, s)
SignatureOf(r, s) == HexEncode(BigBytes(r) \o BigBytes(s))

\* signEvent after ecdsa.Sign returned (r, s) without error
signEvent(event, r, s) == [event EXCEPT !.Signature = SignatureOf(r, s)]

\* ecdsa.Verify: r and s must be positive, and the pair one that the key
\* produced for the digest
EcdsaVerify(key, digest, r, s) ==
    /\ r >= 1
    /\ s >= 1
    /\ [key |-> key, digest |-> digest, r |-> r, s |-> s] \in issued

verifyEventSignature(event, key) ==
    LET hash == Sum256(event.Hash)
        dec  == HexDecode(event.Signature)
        half == Len(dec.bytes) \div 2
        r    == SetBytes(SubSeq(dec.bytes, 1, half))
        s    == SetBytes(SubSeq(dec.bytes, half + 1, Len(dec.bytes)))
    IN  IF dec.err THEN FALSE ELSE EcdsaVerify(key, hash, r, s)


(***************************** events **************************************)
NoEvent ==
    [Transactions |-> <<>>, SelfParent |-> <<>>, OtherParent |-> <<>>,
     Creator |-> <<>>, Timestamp |-> [wall |-> 0, mono |-> 0],
     Signature |-> <<>>, Hash |-> <<>>, RoundCreated |-> 0,
     Famous |-> "nil", Witness |-> FALSE, LamportTime |-> 0]

\* the event literal of the input goroutine: the fields it does not name
\* keep their zero values
NewEvent(text, now) ==
    [NoEvent EXCEPT !.Transactions = <<text>>,
                    !.SelfParent = <<"selfParentHash">>,
                    !.OtherParent = <<"otherParentHash">>,
                    !.Creator = <<"userID">>,
                    !.Timestamp = now]

\* encoding/json on an Event: every field travels under its own name; a
\* time.Time travels as RFC 3339 text, which has no monotonic reading
Marshal(event) == [event EXCEPT !.Timestamp = event.Timestamp.wall]

Unmarshal(wire) == [wire EXCEPT !.Timestamp = [wall |-> wire.Timestamp, mono |-> 0]]

(***************************** the store ***********************************)
\* hg.Rounds[round]: the nil slice for a round with no bucket yet
RoundBucket(round) == IF round \in DOMAIN Rounds THEN Rounds[round] ELSE <<>>

\* what rand.Reader gives ecdsa.Sign: an error, or the pair (r, s) it leads to
Scalars == {Pow256(k - 1) : k \in 1..ScalarBytes}

Rand == {[fail |-> TRUE, r |-> 0, s |-> 0]}
            \cup {[fail |-> FALSE, r |-> r, s |-> s] : r \in Scalars, s \in Scalars}

\* the event object as AddEvent leaves it: Hash always set, Signature set
\* unless signing failed
Added(event, rnd) ==
    LET hashed == [event EXCEPT !.Hash = hashEvent(event)]
    IN  IF rnd.fail THEN hashed ELSE signEvent(hashed, rnd.r, rnd.s)

\* an AddEvent that files the event before it signs it
AddEventStoreFirst(event, rnd) ==
    LET e == Added(event, rnd)
    IN  /\ Events' = MapPut(Events, e.Hash, e)
        /\ Rounds' = MapPut(Rounds, e.RoundCreated,
                            Append(RoundBucket(e.RoundCreated), e))
        /\ IF rnd.fail
           THEN /\ lastErr' = "SigningFailed"
                /\ UNCHANGED issued
           ELSE /\ issued' = issued \cup {[key |-> privateKey,
                                           digest |-> Sum256(e.Hash),
                                           r |-> rnd.r, s |-> rnd.s]}
                /\ lastErr' = "nil"

AddEvent(event, rnd) ==
    LET e == Added(event, rnd)
    IN  IF rnd.fail
        THEN /\ lastErr' = "SigningFailed"
             /\ UNCHANGED <<Events, Rounds, issued>>
        ELSE /\ issued' = issued \cup {[key |-> privateKey,
                                        digest |-> Sum256(e.Hash),
                                        r |-> rnd.r, s |-> rnd.s]}
             /\ Events' = MapPut(Events, e.Hash, e)
             /\ Rounds' = MapPut(Rounds, e.RoundCreated,
                                 Append(RoundBucket(e.RoundCreated), e))
             /\ lastErr' = "nil"

(***************************** input goroutine *****************************)
Texts == {<<"a">>}          \* non-empty lines typed by the user

NodeLists == {<<>>, <<"n1">>}

\* one pass of the input loop that gets as far as creating an event: a
\* non-empty text, a non-empty node list, a valid node number
CreateEvent(text, target, rnd, wrote) ==
    /\ running
    /\ nodes # <<>>
    /\ clock < MaxLocal
    /\ LET event == NewEvent(text, TimeNow(clock + 1))
       IN  /\ AddEvent(event, rnd)
           /\ sent' = IF wrote
                      THEN sent \cup {[Type |-> "event",
                                       Event |-> Marshal(Added(event, rnd)),
                                       TargetNode |-> target]}
                      ELSE sent
    /\ clock' = clock + 1
    /\ UNCHANGED <<nodes, nRecv, readerAlive, lastRecv, recvLog, running>>
    /\ UNCHANGED relayVars

(***************************** reader goroutine ****************************)
Creators == {<<"userID">>, <<"peerB">>}

FamousValues == {"nil", "true", "false"}

\* what a peer can change in an event this client published before sending
\* it back: <<field name>> \o new value (as atoms)
Alterations ==
    {<<"Transactions", "ab">>, <<"Transactions", "a,b">>}
        \cup {<<"Creator">> \o c : c \in Creators \ {<<"userID">>}}
        \cup {<<"Famous", f>> : f \in FamousValues \ {"nil"}}
        \cup {<<"RoundCreated", ToString(k)>> : k \in 1..MaxRound}
        \cup {<<"SelfParent">> \o h : h \in {<<>>} \cup DOMAIN Events}
        \cup {<<"OtherParent">>}

\* at most MaxTamper alterations, no two of the same field
Tamperings ==
    {S \in SUBSET Alterations :
        /\ Cardinality(S) <= MaxTamper
        /\ \A x, y \in S : x[1] = y[1] => x = y}

Altered(S, field) == \E x \in S : x[1] = field

NewValue(S, field) == Tail(CHOOSE x \in S : x[1] = field)

Tamper(ev, S) ==
    [ev EXCEPT
        !.Transactions = IF Altered(S, "Transactions")
                         THEN IF NewValue(S, "Transactions") = <<"ab">>
                              THEN << <<"a", "b">> >>
                              ELSE << <<"a">>, <<"b">> >>
                         ELSE @,
        !.Creator = IF Altered(S, "Creator") THEN NewValue(S, "Creator") ELSE @,
        !.Famous = IF Altered(S, "Famous") THEN NewValue(S, "Famous")[1] ELSE @,
        !.RoundCreated = IF Altered(S, "RoundCreated")
                         THEN CHOOSE k \in 1..MaxRound :
                                 <<ToString(k)>> = NewValue(S, "RoundCreated")
                         ELSE @,
        !.SelfParent = IF Altered(S, "SelfParent") THEN NewValue(S, "SelfParent") ELSE @,
        !.OtherParent = IF Altered(S, "OtherParent") THEN NewValue(S, "OtherParent") ELSE @]

\* the decoded msg.Event of the event messages a peer can build from the
\* messages this client sent: sent back as they are, or tampered with
WireEvents == {Tamper(Unmarshal(m.Event), S) : m \in sent, S \in Tamperings}

\* the event another client created and signed with its own key, as decoded
PeerEvent ==
    LET made == NewEvent(<<"b">>, [wall |-> 1, mono |-> 1])
    IN  Unmarshal(Marshal([made EXCEPT !.Hash = hashEvent(made),
                                       !.Signature = SignatureOf(1, 1)]))

PeerIssued ==
    {[key |-> peerKey, digest |-> Sum256(PeerEvent.Hash), r |-> 1, s |-> 1]}

\* signatures no key produced: empty, odd length, not hexadecimal
Malformed == {<<>>, <<1>>, <<16, 16>>}

ForeignEvents ==
    {PeerEvent} \cup {[PeerEvent EXCEPT !.Signature = sig] : sig \in Malformed}

\* case "event" of the reader loop
RecvEvent(ev, rnd) ==
    /\ running
    /\ readerAlive
    /\ nRecv < MaxRecv
    /\ nRecv' = nRecv + 1
    /\ IF ~verifyEventSignature(ev, publicKey)
       THEN /\ readerAlive' = FALSE
            /\ lastRecv' = [outcome |-> "InvalidSignature", ev |-> ev]
            /\ UNCHANGED <<Events, Rounds, issued, lastErr, recvLog>>
       ELSE /\ AddEvent(ev, rnd)
            /\ recvLog' = IF rnd.fail THEN recvLog ELSE Append(recvLog, ev)
            /\ readerAlive' = ~rnd.fail
            /\ lastRecv' = [outcome |-> IF rnd.fail THEN "SigningFailed" ELSE "added",
                            ev |-> ev]
    /\ UNCHANGED <<sent, clock, nodes, running>>
    /\ UNCHANGED relayVars

\* case "event" of the reader loop on a message with no "event" member:
\* msg.Event is nil, verifyEventSignature reads event.Hash, and the nil
\* pointer dereference panics; no goroutine recovers, the process ends
RecvNilEvent ==
    /\ running
    /\ readerAlive
    /\ nRecv < MaxRecv
    /\ nRecv' = nRecv + 1
    /\ lastRecv' = [outcome |-> "NoPayload", ev |-> NoEvent]
    /\ readerAlive' = FALSE
    /\ running' = FALSE
    /\ UNCHANGED <<Events, Rounds, issued, sent, clock, nodes, lastErr, recvLog>>
    /\ UNCHANGED relayVars

\* cases "offer" and "candidate" when every call succeeds, and any other type
RecvOther ==
    /\ running
    /\ readerAlive
    /\ UNCHANGED vars

\* ReadMessage or json.Unmarshal fails, or a handshake call fails: return
ReaderReturn ==
    /\ running
    /\ readerAlive
    /\ readerAlive' = FALSE
    /\ UNCHANGED <<Events, Rounds, issued, sent, clock, nodes, nRecv,
                   lastRecv, lastErr, recvLog, running>>
    /\ UNCHANGED relayVars

(***************************** relay server ********************************)
\* uuid.New() gives every connection an id of its own: the i-th connection
\* is node i, and its *websocket.Conn is named by the same number
NodeIDs == 1..MaxNodes

\* what a message can name as its target: a node id, or 0, an id that the
\* relay never issued
TargetNodes == 0..MaxNodes

\* the event messages a client sends: the event is named by its hash; the
\* client fills in Type, Event and TargetNode only, so the message's own
\* SelfParent and OtherParent decode as empty strings
EventMsgs ==
    [Type : {"event"}, SelfParent : {<<>>}, OtherParent : {<<>>},
     Event : 1..MaxHashes, TargetNode : TargetNodes]

\* the event a message carries: the h-th event a client built
CarriedEvent(msg) == NewEvent(<<"a">>, TimeNow(msg.Event))

\* HashgraphManagerInstance.AddEvent: the event the manager builds from its
\* arguments and adds to the global hashgraph
ManagerAddEvent(nodeID, selfParent, otherParent, transactions) ==
    [Creator |-> nodeID, SelfParent |-> selfParent, OtherParent |-> otherParent,
     Transactions |-> transactions]

MapDelete(m, k) == [x \in DOMAIN m \ {k} |-> m[x]]

\* the nodes whose signalHandler is in its read loop: registered, and not
\* yet unregistering
Registered == {n \in NodeIDs : pc[n] \in {"reading", "writing"}}

\* the handlers inside registerNode or unregisterNode: they hold
\* sessionManager.mutex and are writing the session map
MapWriters == {n \in NodeIDs : pc[n] \in {"registering", "unregistering"}}

\* the session map once the write in progress is done
SessionsAfter ==
    IF MapWriters = {}
    THEN sessions
    ELSE LET w == CHOOSE n \in MapWriters : TRUE
         IN  IF pc[w] = "registering"
             THEN MapPut(sessions, w, w)
             ELSE MapDelete(sessions, w)

\* what the lookup of case "event" can read: it takes no lock, so while a
\* map write is in progress it sees the map before or after the write
SessionViews == {sessions, SessionsAfter}

\* HashgraphManagerInstance.RegisterNode and GetNodes: the manager lists the
\* ids it was given
RegisterNode(nodeID) == managerNodes' = managerNodes \cup {nodeID}

GetNodes == managerNodes

getNodesHandler == GetNodes

\* signalHandler: upgrade, then registerNode takes the mutex and starts to
\* write the session map
SignalConnect(n) ==
    /\ pc[n] = "new"
    /\ MapWriters = {}
    /\ pc' = [pc EXCEPT ![n] = "registering"]
    /\ UNCHANGED <<sessions, managerNodes, writing, relayLog>>
    /\ UNCHANGED <<stalled, clientVars>>

\* registerNode returns, then RegisterNode, then the read loop starts
RegisterDone(n) ==
    /\ pc[n] = "registering"
    /\ sessions' = MapPut(sessions, n, n)
    /\ RegisterNode(n)
    /\ pc' = [pc EXCEPT ![n] = "reading"]
    /\ UNCHANGED <<writing, relayLog>>
    /\ UNCHANGED <<stalled, clientVars>>

\* the connections case "event" writes the message to: the target's, when
\* the target is not the sender and the lookup finds it
ForwardTargets(n, msg, view) ==
    IF msg.TargetNode = n
    THEN {}
    ELSE IF msg.TargetNode \in DOMAIN view
         THEN {view[msg.TargetNode]}
         ELSE {}

\* what the handler of n wrote down for one event message
Handled(n, msg, addErr, targets) ==
    [from |-> n, msg |-> msg, addErr |-> addErr, registered |-> Registered,
     added |-> ManagerAddEvent(n, msg.SelfParent, msg.OtherParent, <<>>),
     writes |-> {[conn |-> c, Type |-> msg.Type] : c \in targets}]

\* case "event" of the read loop, up to the call of targetConn.WriteJSON;
\* addErr is whether HashgraphManagerInstance.AddEvent returned an error
HandleEvent(n, msg, addErr, view) ==
    /\ pc[n] = "reading"
    /\ Len(relayLog) < MaxMsgs
    /\ LET targets == ForwardTargets(n, msg, view)
       IN  /\ writing' = [writing EXCEPT ![n] = targets]
           /\ pc' = [pc EXCEPT ![n] = IF targets = {} THEN "reading" ELSE "writing"]
           /\ relayLog' = Append(relayLog, Handled(n, msg, addErr, targets))
    /\ UNCHANGED <<sessions, managerNodes>>
    /\ UNCHANGED <<stalled, clientVars>>

\* case "event" when the lookup runs during a map write and the runtime
\* detects it: fatal error "concurrent map read and map write", the relay
\* process exits
HandleEventFatal(n, msg, addErr) ==
    /\ pc[n] = "reading"
    /\ Len(relayLog) < MaxMsgs
    /\ msg.TargetNode # n
    /\ MapWriters # {}
    /\ pc' = [m \in NodeIDs |-> "exited"]
    /\ writing' = [m \in NodeIDs |-> {}]
    /\ relayLog' = Append(relayLog, Handled(n, msg, addErr, {}))
    /\ UNCHANGED <<sessions, managerNodes>>
    /\ UNCHANGED <<stalled, clientVars>>

\* the connections a WriteJSON call does not return from: the peer has
\* stopped accepting writes, and the connection has not been closed
Blocking == {c \in stalled : pc[c] # "closed"}

\* targetConn.WriteJSON returns, with an error or without: back to the loop
WriteDone(n) ==
    /\ pc[n] = "writing"
    /\ writing[n] \cap Blocking = {}
    /\ pc' = [pc EXCEPT ![n] = "reading"]
    /\ writing' = [writing EXCEPT ![n] = {}]
    /\ UNCHANGED <<sessions, managerNodes, relayLog>>
    /\ UNCHANGED <<stalled, clientVars>>

\* targetConn.WriteJSON while another handler writes to the same connection:
\* panic "concurrent write to websocket connection"; the handler unwinds
\* into its deferred unregisterNode
WritePanic(n) ==
    /\ pc[n] = "writing"
    /\ \E m \in NodeIDs \ {n} : writing[m] \cap writing[n] # {}
    /\ MapWriters = {}
    /\ pc' = [pc EXCEPT ![n] = "unregistering"]
    /\ writing' = [writing EXCEPT ![n] = {}]
    /\ UNCHANGED <<sessions, managerNodes, relayLog>>
    /\ UNCHANGED <<stalled, clientVars>>

\* a message that does not parse, or of type offer, answer, candidate or of
\* an unknown type: logged only
HandleOther(n) ==
    /\ pc[n] = "reading"
    /\ UNCHANGED vars

\* ReadMessage fails: break, then the deferred unregisterNode takes the
\* mutex and starts to write the session map
SignalDisconnect(n) ==
    /\ pc[n] = "reading"
    /\ MapWriters = {}
    /\ pc' = [pc EXCEPT ![n] = "unregistering"]
    /\ UNCHANGED <<sessions, managerNodes, writing, relayLog>>
    /\ UNCHANGED <<stalled, clientVars>>

\* unregisterNode returns, then the deferred conn.Close
UnregisterDone(n) ==
    /\ pc[n] = "unregistering"
    /\ sessions' = MapDelete(sessions, n)
    /\ pc' = [pc EXCEPT ![n] = "closed"]
    /\ UNCHANGED <<managerNodes, writing, relayLog>>
    /\ UNCHANGED <<stalled, clientVars>>

\* the peer behind connection c stops reading: from now on a write to c
\* does not complete
Stall(c) ==
    /\ pc[c] \in {"reading", "writing"}
    /\ Cardinality(stalled) < MaxStalled
    /\ stalled' = stalled \cup {c}
    /\ UNCHANGED <<pc, sessions, managerNodes, writing, relayLog>>
    /\ UNCHANGED clientVars

(***************************** specification *******************************)
Init ==
    /\ Events = EmptyMap
    /\ Rounds = EmptyMap
    /\ issued = PeerIssued
    /\ sent = {}
    /\ clock = 0
    /\ nodes \in NodeLists
    /\ nRecv = 0
    /\ readerAlive = TRUE
    /\ lastRecv = [outcome |-> "none", ev |-> NoEvent]
    /\ lastErr = "none"
    /\ recvLog = <<>>
    /\ running = TRUE
    /\ pc = [n \in NodeIDs |-> "new"]
    /\ sessions = EmptyMap
    /\ managerNodes = {}
    /\ writing = [n \in NodeIDs |-> {}]
    /\ stalled = {}
    /\ relayLog = <<>>

Next ==
    \/ \E text \in Texts, i \in 1..Len(nodes), rnd \in Rand, wrote \in BOOLEAN :
          CreateEvent(text, nodes[i], rnd, wrote)
    \/ \E ev \in WireEvents \cup ForeignEvents, rnd \in Rand : RecvEvent(ev, rnd)
    \/ RecvNilEvent
    \/ RecvOther
    \/ ReaderReturn

Spec == Init /\ [][Next]_vars

RelayInit == Init /\ nodes = <<>>

RelayNext ==
    \/ \E n \in NodeIDs : SignalConnect(n)
    \/ \E n \in NodeIDs : RegisterDone(n)
    \/ \E n \in NodeIDs, msg \in EventMsgs, addErr \in BOOLEAN, view \in SessionViews :
          HandleEvent(n, msg, addErr, view)
    \/ \E n \in NodeIDs, msg \in EventMsgs, addErr \in BOOLEAN :
          HandleEventFatal(n, msg, addErr)
    \/ \E n \in NodeIDs : WriteDone(n)
    \/ \E n \in NodeIDs : WritePanic(n)
    \/ \E n \in NodeIDs : HandleOther(n)
    \/ \E n \in NodeIDs : SignalDisconnect(n)
    \/ \E n \in NodeIDs : UnregisterDone(n)

SpecRelay == RelayInit /\ [][RelayNext]_vars

\* the relay with peers that may stop accepting writes.  The scheduler runs
\* every goroutine that can run: a write that can complete returns, and a
\* handler inside registerNode or unregisterNode leaves it.
StallNext ==
    \/ \E n \in NodeIDs : SignalConnect(n)
    \/ \E n \in NodeIDs : RegisterDone(n)
    \/ \E n \in NodeIDs, t \in TargetNodes, view \in SessionViews :
          HandleEvent(n, CHOOSE m \in EventMsgs : m.Event = 1 /\ m.TargetNode = t,
                      FALSE, view)
    \/ \E n \in NodeIDs, t \in TargetNodes :
          HandleEventFatal(n, CHOOSE m \in EventMsgs : m.Event = 1 /\ m.TargetNode = t,
                           FALSE)
    \/ \E n \in NodeIDs : WriteDone(n)
    \/ \E n \in NodeIDs : WritePanic(n)
    \/ \E n \in NodeIDs : HandleOther(n)
    \/ \E n \in NodeIDs : SignalDisconnect(n)
    \/ \E n \in NodeIDs : UnregisterDone(n)
    \/ \E c \in NodeIDs : Stall(c)

SpecRelayFair ==
    /\ RelayInit
    /\ [][StallNext]_vars
    /\ \A n \in NodeIDs : /\ WF_vars(WriteDone(n))
                          /\ WF_vars(RegisterDone(n))
                          /\ WF_vars(UnregisterDone(n))

(***************************** properties **********************************)
\* the fields of an event other than the two AddEvent derives (Hash, Signature)
SameFields(e1, e2) ==
    [e1 EXCEPT !.Hash = <<>>, !.Signature = <<>>]
        = [e2 EXCEPT !.Hash = <<>>, !.Signature = <<>>]

\* the fields hashEvent reads
HashedFields(e) ==
    <<e.Creator, e.SelfParent, e.OtherParent, e.Timestamp, e.Transactions>>

\* every event some round bucket holds
BucketEntries == UNION {{Rounds[r][i] : i \in 1..Len(Rounds[r])} : r \in DOMAIN Rounds}

\* the key pair of the node a creator id names: this client signs as
\* "userID", any other id names another node
CreatorKey(creator) == IF creator = <<"userID">> THEN publicKey ELSE peerKey

\* the reader has just added the event in lastRecv'
ReaderAdds == nRecv' = nRecv + 1 /\ lastRecv'.outcome = "added"

\* C1: Insert is idempotent: when an event is inserted whose hash is already
\* in the store with the same fields, Events and every Rounds bucket stay
\* as they were after the first insertion and the call reports DuplicateEvent.
C1_InsertIdempotent ==
    [][(/\ ReaderAdds
        /\ hashEvent(lastRecv'.ev) \in DOMAIN Events
        /\ SameFields(Events[hashEvent(lastRecv'.ev)], lastRecv'.ev))
          => (/\ Events' = Events
              /\ Rounds' = Rounds
              /\ lastErr' = "DuplicateEvent")]_vars

\* C2: an event received with a supplied hash that differs from the hash
\* recomputed from its fields is never added to Events or to a Rounds bucket.
C2_HashMismatchRejected ==
    lastRecv.outcome = "added" => lastRecv.ev.Hash = hashEvent(lastRecv.ev)

\* C3: every event added from a peer carried a signature that verifies under
\* the public key of the node named as its creator.
C3_VerifiedAgainstCreatorKey ==
    lastRecv.outcome = "added"
        => verifyEventSignature(lastRecv.ev, CreatorKey(lastRecv.ev.Creator))

\* C4: sign/verify round trip: the signature signEvent stored on an event
\* verifies under the matching public key, whatever the byte lengths of r, s.
C4_SignVerifyRoundTrip ==
    \A h \in DOMAIN Events : verifyEventSignature(Events[h], publicKey)

\* C5: two events that differ in a hashed field (creator, selfParent,
\* otherParent, timestamp, ordered transaction list) never share a hash.
C5_MutationChangesHash ==
    \A e1, e2 \in BucketEntries :
        HashedFields(e1) # HashedFields(e2) => e1.Hash # e2.Hash

\* C6: the hash of a locally created event is stable across the wire: the
\* hash a receiver recomputes from the decoded event is the hash the creator
\* computed and signed.
C6_HashStableAcrossWire ==
    \A m \in sent :
        m.Event.Signature # <<>> => hashEvent(Unmarshal(m.Event)) = m.Event.Hash

\* C7: parent closure: a stored event's selfParent, when set, is in the store
\* with the same creator, and its otherParent, when set, is in the store.
C7_ParentClosure ==
    \A h \in DOMAIN Events :
        LET e == Events[h]
        IN  /\ e.SelfParent # <<>> =>
                /\ e.SelfParent \in DOMAIN Events
                /\ Events[e.SelfParent].Creator = e.Creator
            /\ e.OtherParent # <<>> => e.OtherParent \in DOMAIN Events

\* C8: famous only settles: once the famous status stored for a hash is true
\* or false, no step changes it to the opposite value or back to nil.
C8_FamousNeverReversed ==
    [][\A h \in DOMAIN Events :
          Events[h].Famous # "nil"
              => (h \in DOMAIN Events' /\ Events'[h].Famous = Events[h].Famous)]_vars

\* C9: rounds partition the events: every hash in Events is held exactly once
\* over all buckets, in the bucket of the round stored on its event, and
\* every bucket entry is the event Events holds for its hash.
C9_RoundsPartitionEvents ==
    /\ \A h \in DOMAIN Events :
          /\ Cardinality({<<r, i>> \in UNION {{r} \X (1..Len(Rounds[r])) : r \in DOMAIN Rounds} :
                             Rounds[r][i].Hash = h}) = 1
          /\ Events[h].RoundCreated \in DOMAIN Rounds
          /\ \E i \in 1..Len(Rounds[Events[h].RoundCreated]) :
                 Rounds[Events[h].RoundCreated][i].Hash = h
    /\ \A e \in BucketEntries : e.Hash \in DOMAIN Events /\ Events[e.Hash] = e

\* C10: rounds never decrease along parent edges: a stored event's round is
\* at least the round of each of its parents that is in the store.
C10_RoundsMonotoneAlongParents ==
    \A h \in DOMAIN Events :
        LET e == Events[h]
        IN  /\ e.SelfParent \in DOMAIN Events
                => e.RoundCreated >= Events[e.SelfParent].RoundCreated
            /\ e.OtherParent \in DOMAIN Events
                => e.RoundCreated >= Events[e.OtherParent].RoundCreated

\* the parents of a stored event that are in the store
StoredParents(e) == {e.SelfParent, e.OtherParent} \cap DOMAIN Events

\* the largest round among the stored parents of an event, 0 without any
ParentRound(e) ==
    IF StoredParents(e) = {}
    THEN 0
    ELSE CHOOSE r \in {Events[p].RoundCreated : p \in StoredParents(e)} :
             \A p \in StoredParents(e) : Events[p].RoundCreated <= r

RECURSIVE Closure(_, _)
Closure(S, n) ==
    IF n = 0
    THEN S
    ELSE Closure(S \cup UNION {StoredParents(Events[x]) : x \in S}, n - 1)

\* the stored events reachable from h along parent edges, h included
Seen(h) == Closure({h}, Cardinality(DOMAIN Events))

\* the peer set, and the creators on the paths from x down to w
PeerCount == Cardinality(Creators)

PathCreators(x, w) == {Events[z].Creator : z \in {z \in Seen(x) : w \in Seen(z)}}

StronglySees(x, w) == w \in Seen(x) /\ 3 * Cardinality(PathCreators(x, w)) > 2 * PeerCount

\* a root, or an event of a later round than its self-parent
RoundWitness(h) ==
    \/ Events[h].SelfParent = <<>>
    \/ /\ Events[h].SelfParent \in DOMAIN Events
       /\ Events[h].RoundCreated > Events[Events[h].SelfParent].RoundCreated

\* C11: the witness flag is derived from rounds: a stored event is flagged
\* Witness exactly when it is a root (no selfParent) or its round is greater
\* than the round of its self-parent.
C11_WitnessDerivedFromRounds ==
    \A h \in DOMAIN Events : Events[h].Witness <=> RoundWitness(h)

\* C12: round advance on supermajority: the round of a stored event is the
\* largest round of its parents, plus one exactly when the event strongly
\* sees witnesses of that round from more than two-thirds of the peer set.
C12_RoundAdvanceOnSupermajority ==
    \A h \in DOMAIN Events :
        LET r == ParentRound(Events[h])
            W == {w \in Seen(h) \ {h} :
                     /\ Events[w].RoundCreated = r
                     /\ RoundWitness(w)
                     /\ StronglySees(h, w)}
        IN  Events[h].RoundCreated
                = r + (IF 3 * Cardinality({Events[w].Creator : w \in W}) > 2 * PeerCount
                       THEN 1 ELSE 0)

\* what a node that received the events of log, in that order, stores
RECURSIVE Replay(_)
Replay(log) ==
    IF log = <<>>
    THEN EmptyMap
    ELSE LET e == log[Len(log)]
         IN  MapPut(Replay(SubSeq(log, 1, Len(log) - 1)), hashEvent(e), e)

\* the round, witness and famous assignment of every hash of a store
Assignments(store) ==
    [h \in DOMAIN store |->
        <<store[h].RoundCreated, store[h].Witness, store[h].Famous>>]

\* C13: order-independence: a node that received the events this reader
\* added, in any other arrival order, ends with the same round, witness and
\* famous assignment for every hash.
C13_OrderIndependence ==
    \A p \in Permutations(1..Len(recvLog)) :
        Assignments(Replay([i \in 1..Len(recvLog) |-> recvLog[p[i]]]))
            = Assignments(Replay(recvLog))

\* the messages the relay wrote to connection c that carry event h
ForwardsOf(c, h) ==
    {k \in 1..Len(relayLog) :
        relayLog[k].msg.Event = h /\ c \in {w.conn : w \in relayLog[k].writes}}

\* C14: at-most-once forwarding: the relay writes an event with a given hash
\* to a given peer's connection at most once; a message carrying an event
\* it has already handled is not forwarded again.
C14_AtMostOnceForwarding ==
    \A c \in NodeIDs, h \in 1..MaxHashes : Cardinality(ForwardsOf(c, h)) <= 1

\* C15: targeted forwarding: an event message naming a registered target
\* other than its sender is written to the target's connection and to no
\* other; a message whose target is its sender is written to no connection.
C15_TargetedForwarding ==
    \A k \in 1..Len(relayLog) :
        LET l == relayLog[k]
            t == l.msg.TargetNode
        IN  /\ (t # l.from /\ t \in l.registered) => {w.conn : w \in l.writes} = {t}
            /\ t = l.from => l.writes = {}

\* C16: rejected events are not forwarded: when the relay's attempt to add a
\* received event fails, the message is written to no peer's connection.
C16_RejectedNotForwarded ==
    \A k \in 1..Len(relayLog) : relayLog[k].addErr => relayLog[k].writes = {}

\* C17: no disconnect on a bad event: after the reader receives an event
\* that fails validation it drops the event and keeps reading later messages.
C17_ReaderSurvivesBadEvent ==
    [][(nRecv' = nRecv + 1 /\ lastRecv'.outcome = "InvalidSignature")
          => readerAlive']_vars

\* C18: an unknown target is reported: when an event message names a target
\* that is not registered, the sender is written a delivery-failed
\* notification on its own connection, and its connection stays served.
C18_UnknownTargetReported ==
    [][(/\ Len(relayLog') = Len(relayLog) + 1
        /\ relayLog'[Len(relayLog')].msg.TargetNode \notin DOMAIN sessions \cup MapWriters)
          => LET l == relayLog'[Len(relayLog')]
             IN  /\ [conn |-> l.from, Type |-> "delivery-failed"] \in l.writes
                 /\ pc'[l.from] \in {"reading", "writing"}]_vars

\* C19: registration follows the connection: a node id is in the list the
\* directory query returns while its handler serves the connection, and is
\* not in it before the connection is made or once it has closed.
C19_RegistrationFollowsConnection ==
    \A n \in NodeIDs :
        /\ n \in Registered => n \in getNodesHandler
        /\ pc[n] \in {"new", "closed"} => n \notin getNodesHandler

\* C20: single outbound writer: at most one handler at a time is inside a
\* write to a given peer connection.
C20_SingleOutboundWriter ==
    \A c \in NodeIDs : Cardinality({n \in NodeIDs : c \in writing[n]}) <= 1

\* C21: peer tasks never block one another: a handler that forwards an
\* event to a peer, even one that has stopped accepting writes, leaves the
\* write and goes on with its read loop.
C21_HandlersNeverBlock ==
    \A n \in NodeIDs : (pc[n] = "writing") ~> (pc[n] # "writing")

\* signature strings: hex digits 0 and 1, and 16 for a character that is
\* not a hex digit, in every length up to MaxSigLen
SigStrings == UNION {[1..k -> {0, 1, 16}] : k \in 0..MaxSigLen}

\* not the hex encoding of a non-empty byte string
BadEncoding(sig) ==
    \/ sig = <<>>
    \/ Len(sig) % 2 = 1
    \/ \E i \in 1..Len(sig) : sig[i] > 15

\* the string encodes, split at some byte, a pair the key produced for the
\* digest
ValidFor(sig, digest, key) ==
    /\ ~BadEncoding(sig)
    /\ \E rec \in issued, k \in 0..(Len(sig) \div 2) :
          /\ rec.key = key
          /\ rec.digest = digest
          /\ SetBytes(SubSeq(HexBytes(sig), 1, k)) = rec.r
          /\ SetBytes(SubSeq(HexBytes(sig), k + 1, Len(sig) \div 2)) = rec.s

\* C22: verify is total: for every signature string (not hexadecimal, of
\* odd length, empty, of any byte length) verifyEventSignature yields a
\* boolean, false for a badly encoded string, and true only for a string
\* that is valid for the hash and the key.
C22_VerifyTotal ==
    \A ev \in {PeerEvent} \cup {Unmarshal(m.Event) : m \in sent},
       sig \in SigStrings, key \in {publicKey, peerKey} :
        LET e == [ev EXCEPT !.Signature = sig]
            v == verifyEventSignature(e, key)
        IN  /\ v \in BOOLEAN
            /\ BadEncoding(sig) => ~v
            /\ v => ValidFor(sig, Sum256(e.Hash), key)

\* the reader has rejected an event with a badly encoded, non-empty
\* signature, after this client signed and sent an event of its own
C22_Witness ==
    /\ lastRecv.outcome = "InvalidSignature"
    /\ lastRecv.ev.Signature # <<>>
    /\ BadEncoding(lastRecv.ev.Signature)
    /\ \E m \in sent : verifyEventSignature(Unmarshal(m.Event), publicKey)

\* the event object the input goroutine held when it wrote message m: its
\* timestamp is the reading of time.Now() the message carries as text
Held(m) == [Unmarshal(m.Event) EXCEPT !.Timestamp = TimeNow(m.Event.Timestamp)]

\* C23: the client signs before sending: every event message the input
\* goroutine wrote carries the hash hashEvent gives for its fields and a
\* signature signEvent produced over that hash with the client's key.
C23_SignedBeforeSent ==
    \A m \in sent :
        /\ m.Event.Hash = hashEvent(Held(m))
        /\ verifyEventSignature(Held(m), publicKey)

\* C24: the relay records what it received: the event it adds to the global
\* hashgraph for a message has the selfParent, otherParent and transactions
\* of the event the message carries, and the sender as its creator.
C24_RelayRecordsReceived ==
    \A k \in 1..Len(relayLog) :
        LET l == relayLog[k]
            e == CarriedEvent(l.msg)
        IN  ~l.addErr =>
                /\ l.added.Creator = l.from
                /\ l.added.SelfParent = e.SelfParent
                /\ l.added.OtherParent = e.OtherParent
                /\ l.added.Transactions = e.Transactions

\* a step in which AddEvent was called: by the input goroutine, or by the
\* reader on an event that passed verification
AddEventCalled ==
    \/ clock' = clock + 1
    \/ nRecv' = nRecv + 1 /\ lastRecv'.outcome \in {"added", "SigningFailed"}

\* C25: failed signing leaves the store unchanged: when signEvent fails
\* inside AddEvent, AddEvent returns that error and neither Events nor any
\* Rounds bucket has been modified.
C25_FailedSigningLeavesStore ==
    [][(AddEventCalled /\ lastErr' = "SigningFailed")
          => (Events' = Events /\ Rounds' = Rounds)]_vars

\* signing has failed for an event the reader received, on a store that
\* already holds an event
C25_Witness ==
    /\ lastErr = "SigningFailed"
    /\ lastRecv.outcome = "SigningFailed"
    /\ hashEvent(lastRecv.ev) \notin DOMAIN Events
    /\ Events # EmptyMap

\* C26: session registry lock discipline: every access of the session map
\* is made under the mutex, so no target lookup runs while a handler is
\* inside registerNode or unregisterNode.
C26_LookupUnderMutex ==
    [][(/\ Len(relayLog') = Len(relayLog) + 1
        /\ relayLog'[Len(relayLog')].msg.TargetNode # relayLog'[Len(relayLog')].from)
          => MapWriters = {}]_vars

\* C27: a message of type event without an event payload does not crash
\* the client: the process keeps running and the store is unchanged.
C27_NoPayloadNoCrash ==
    [][(nRecv' = nRecv + 1 /\ lastRecv'.outcome = "NoPayload")
          => (running' /\ Events' = Events /\ Rounds' = Rounds)]_vars

=============================================================================
